---- MODULE Spec2Model ----
(***************************************************************************)
(* DataframeTradeStatistics (src/dataframe_trade_stats.py): the keyed      *)
(* store of trade records, its two write paths (entry, exit), the          *)
(* incremental and final JSON exports, the summary and clear.              *)
(*                                                                         *)
(* Encoding of Python values:                                              *)
(*   - a str is the sequence of its characters ("" is << >>);              *)
(*   - an Optional value is << >> for None and <<x>> for the value x;      *)
(*   - a float ratio is an integer number of percent, a price or an        *)
(*     amount an integer; float() of a number keeps its value;             *)
(*   - a dict is the sequence of its items in insertion order;             *)
(*   - a file path is the clock reading that strftime renders into the     *)
(*     default file name of the output directory;                          *)
(*   - the file system keeps, for every path, whether the file holds a     *)
(*     complete JSON document or a truncated one; the document of the      *)
(*     latest dump is part of the outcome of the call that made it.        *)
(***************************************************************************)
EXTENDS Integers, Sequences, FiniteSets, TLC

\* ---------------------------------------------------------------- bounds
MaxTime == 1      \* datetime.now() reads 0..MaxTime

\* ------------------------------------------------------- Python values
None == << >>
Some(x) == <<x>>

NoTag == <<"n", "o", "_", "t", "a", "g">>

\* datetime.isoformat(): a canonical text of the instant, free of "_"
isoformat(t) == <<"T", IF t = 0 THEN "0" ELSE "1">>

\* float(x): TypeError on None, the number otherwise
float(x) == IF x = None THEN [exc |-> "TypeError", val |-> 0]
                        ELSE [exc |-> "none", val |-> x[1]]

\* ------------------------------------------------------------- the dict
DictHas(d, k) == \E i \in 1..Len(d) : d[i].key = k
DictIdx(d, k) == CHOOSE i \in 1..Len(d) : d[i].key = k
DictGet(d, k) == d[DictIdx(d, k)].val
\* (mutant: assigning to a key of the dict merges into the value it holds)
DictSet_m(d, k, v) ==
    IF DictHas(d, k)
    THEN [d EXCEPT ![DictIdx(d, k)] = [key |-> k, val |-> v @@ d[DictIdx(d, k)].val]]
    ELSE Append(d, [key |-> k, val |-> v])
\* (mutant: assigning to a key of the dict moves the key to the end)
DictSet_move_m(d, k, v) ==
    Append(SelectSeq(d, LAMBDA e : e.key # k), [key |-> k, val |-> v])
\* d[k] = v: an existing key keeps its position, a new key goes last
DictSet(d, k, v) ==
    IF DictHas(d, k) THEN [d EXCEPT ![DictIdx(d, k)] = [key |-> k, val |-> v]]
                     ELSE Append(d, [key |-> k, val |-> v])
\* (mutant: the update also resets the amount of the record)
DictUpdate_m(r, u) == u @@ [r EXCEPT !.amount = 0]
\* r.update(u): the fields of u replace or extend those of r
DictUpdate(r, u) == u @@ r

\* --------------------------------------------------------------- inputs
Pairs == {<<"b">>}

\* candle values carry their runtime type
Val(t, v) == [t |-> t, v |-> v]
\* the (trade, candle) arguments of store_entry_dataframe: the first buy of
\* a trade without a tag and its second buy (order_filled runs for every buy
\* order of a trade, whose open_rate and amount then are those of the
\* adjusted position), the buy of a trade tagged "a", and one call for every
\* place where the conversion can fail
Fill(tag, date, rate, amount, candle) ==
    [trade |-> [enter_tag |-> tag, open_date_utc |-> date,
                open_rate |-> rate, amount |-> amount],
     candle |-> candle]
CandleA == Some([close |-> Val("float", 1)])
CandleB == Some([close |-> Val("np.float64", 2), date |-> Val("Timestamp", 0),
                 rsi |-> Val("nan", 0), volume |-> Val("np.int64", 3),
                 seen |-> Val("datetime", 1), prev |-> Val("NaT", 0),
                 enter_long |-> Val("np.bool_", 1), tag |-> Val("None", 0),
                 open |-> Val("float", 2), name |-> Val("str", <<"x">>)])
EntryCalls ==
    { Fill(None, Some(0), Some(100), Some(1), CandleA),
      Fill(None, Some(0), Some(200), Some(2), CandleB),
      Fill(Some(<<"a">>), Some(0), Some(100), Some(1), CandleA),
      Fill(Some(<<"a">>), None, Some(100), Some(1), CandleA),
      Fill(Some(<<"a">>), Some(0), None, Some(1), CandleA),
      Fill(Some(<<"a">>), Some(0), Some(100), None, CandleA),
      Fill(Some(<<"a">>), Some(0), Some(100), Some(1), None),
      Fill(Some(<<"a">>), Some(0), Some(100), Some(1),
           Some([close |-> Val("list", 0)])) }

\* the (trade, exit) arguments of store_exit_profit, with what the trade's
\* profit calculations do for the exit rate: raise, or return a value
Returns(v) == [exc |-> "none", val |-> v]
Raises(e) == [exc |-> e, val |-> None]
Exit(tag, date, rate, reason, ratio, abs) ==
    [trade |-> [enter_tag |-> tag, open_date_utc |-> date,
                nr_of_successful_buys |-> 1],
     exit_rate |-> rate, exit_reason |-> reason,
     calc_profit_ratio |-> ratio, calc_profit |-> abs]
\* a loss and a break-even of the trade tagged "a", the winning exit of a
\* trade whose tag is the text "no_tag", and one exit for every place where
\* the call can fail
ExitCalls ==
    { Exit(Some(<<"a">>), Some(0), Some(90), <<"l">>,
           Returns(Some(-10)), Returns(Some(-5))),
      Exit(Some(<<"a">>), Some(0), Some(100), <<"t">>,
           Returns(Some(0)), Returns(Some(0))),
      Exit(Some(NoTag), Some(0), Some(120), <<"s">>,
           Returns(Some(20)), Returns(Some(10))),
      Exit(Some(<<"a">>), None, Some(110), <<"s">>,
           Returns(Some(10)), Returns(Some(5))),
      Exit(Some(<<"a">>), Some(0), Some(110), <<"s">>,
           Raises("ValueError"), Returns(Some(5))),
      Exit(Some(<<"a">>), Some(0), Some(110), <<"s">>,
           Returns(Some(10)), Raises("ValueError")),
      Exit(Some(<<"a">>), Some(0), Some(110), <<"s">>,
           Returns(Some(10)), Returns(None)),
      Exit(Some(<<"a">>), Some(0), None, <<"s">>,
           Returns(Some(10)), Returns(Some(5))) }

\* what the file system does to a write: all of it ("ok"), nothing (mkdir
\* or open raises: "open_fail"), or a part (json.dump raises after open
\* truncated the file: "write_fail")
IoOutcomes == {"ok", "open_fail", "write_fail"}
Clock == 0..MaxTime
\* explicit destinations a caller passes to export_to_json
OutputPaths == {0}

\* ------------------------------------------------------ pure functions
\* the exception classes the handlers name
IsException(e) == e \in {"AttributeError", "TypeError", "ValueError", "OSError"}

_generate_trade_key(enter_tag, pair, open_date_utc) ==
    IF open_date_utc = None
    THEN Raises("AttributeError")
    ELSE LET enter_tag_str == IF enter_tag = None \/ enter_tag = Some(<<>>)
                              THEN NoTag ELSE enter_tag[1]
             timestamp == isoformat(open_date_utc[1])
         IN  Returns(enter_tag_str \o <<"_">> \o pair \o <<"_">> \o timestamp)

\* (mutant: the pd.isna branch is missing)
ConvertValue_m(x) ==
    CASE x.t \in {"Timestamp", "datetime"} -> Val("str", isoformat(x.v))
      [] x.t = "NaT" -> Val("str", <<"N", "a", "T">>)
      [] x.t \in {"np.float64", "np.int64"} -> Val("float", x.v)
      [] x.t = "np.bool_" -> Val("str", IF x.v = 0 THEN <<"F">> ELSE <<"T">>)
      [] OTHER -> x
\* one value of the candle, by the branch its runtime type takes
ConvertValue(x) ==
    CASE x.t \in {"Timestamp", "datetime"} -> Val("str", isoformat(x.v))
      [] x.t = "NaT" -> Val("str", <<"N", "a", "T">>)
      [] x.t \in {"nan", "None"} -> Val("null", None)
      [] x.t \in {"np.float64", "np.int64"} -> Val("float", x.v)
      [] x.t = "np.bool_" -> Val("str", IF x.v = 0 THEN <<"F">> ELSE <<"T">>)
      [] OTHER -> x

_convert_candle_to_dict(candle) ==
    IF candle = None
    THEN Raises("TypeError")
    ELSE LET candle_dict == candle[1]
         IN  IF \E f \in DOMAIN candle_dict : candle_dict[f].t = "list"
             THEN Raises("ValueError")
             ELSE Returns([f \in DOMAIN candle_dict |-> ConvertValue(candle_dict[f])])


\* ---------------------------------------------------------------- state
VARIABLES
    enabled,               \* self.enabled
    auto_save_on_exit,     \* self.auto_save_on_exit
    trade_data,            \* self.trade_data: trade key -> record
    _current_export_file,  \* self._current_export_file: None or the path
    files,                 \* the output directory: path -> state of the file
    ret                    \* the last call: what it was and how it ended

vars == <<enabled, auto_save_on_exit, trade_data, _current_export_file,
          files, ret>>

\* the outcome of a call: the operation; the trade key it looked up (if it
\* got that far);
\* the exception that reached the caller ("none": it returned normally); the
\* levels of the log records it emitted, in order; what its file write did
\* ("none": it made no directory and opened no file); the value returned;
\* the document it dumped (if the dump completed); what the call found: for
\* a call that wrote its record, what the store held under the key, for an
\* export of the store, whether the call before it was an export that
\* dumped its document ("none" otherwise)
Outcome(op, key, raised, log, io, value, data) ==
    [op |-> op, key |-> key, raised |-> raised, log |-> log, io |-> io,
     value |-> value, data |-> data, prior |-> "none"]

\* the store under the key: no record, a record without a profit, or a
\* record with the profit of an exit
Prior(td, key) ==
    IF ~DictHas(td, key) THEN "absent"
    ELSE IF DictGet(td, key).profit = None THEN "open" ELSE "exited"

\* ----------------------------------------------------- summary and export
\* (mutant: a record without a profit counts with profit 0)
ProfitsOf_m(td) ==
    [i \in 1..Len(td) |->
        IF td[i].val.profit = None THEN 0 ELSE td[i].val.profit[1]]
RECURSIVE ProfitsOf(_)
\* [t['profit'] for t in trade_data.values() if t.get('profit') is not None]
ProfitsOf(td) ==
    IF td = << >> THEN << >>
    ELSE LET p == Head(td).val.profit
         IN  (IF p # None THEN <<p[1]>> ELSE << >>) \o ProfitsOf(Tail(td))

RECURSIVE sum(_)
sum(ps) == IF ps = << >> THEN 0 ELSE Head(ps) + sum(Tail(ps))
min(ps) == CHOOSE m \in {ps[i] : i \in 1..Len(ps)} : \A i \in 1..Len(ps) : m <= ps[i]
max(ps) == CHOOSE m \in {ps[i] : i \in 1..Len(ps)} : \A i \in 1..Len(ps) : m >= ps[i]
\* sum(1 for p in profits if p > 0), ... if p < 0, ... if p == 0
CountPositive(ps) == Cardinality({i \in 1..Len(ps) : ps[i] > 0})
\* (mutant: a break-even counts as a loss)
CountNegative_m(ps) == Cardinality({i \in 1..Len(ps) : ps[i] <= 0})
CountNegative(ps) == Cardinality({i \in 1..Len(ps) : ps[i] < 0})
\* (mutant: a break-even is not counted)
CountZero_m(ps) == 0
CountZero(ps) == Cardinality({i \in 1..Len(ps) : ps[i] = 0})

\* f"{(wins / n * 100):.2f}%": the percentage rounded to two decimals, as a
\* number of hundredths of a percent (no quotient of counts below 32 falls
\* half way between two hundredths)
FormatPct(wins, n) == (20000 * wins + n) \div (2 * n)
\* total / n, kept as the exact quotient
Quotient(total, n) == [num |-> total, den |-> n]

get_statistics_summary(td) ==
    IF td = << >>
    THEN [total_trades |-> 0, trades_with_exit_data |-> 0,
          trades_with_profit |-> 0, profitable_trades |-> 0,
          losing_trades |-> 0, breakeven_trades |-> 0, win_rate |-> 0,
          avg_profit |-> Quotient(0, 1), total_profit |-> 0,
          min_profit |-> 0, max_profit |-> 0]
    ELSE LET profits == ProfitsOf(td)
             profitable == CountPositive(profits)
             losing == CountNegative(profits)
             breakeven == CountZero(profits)
             total_profit == IF profits # << >> THEN sum(profits) ELSE 0
             avg_profit == IF profits # << >>
                           THEN Quotient(total_profit, Len(profits))
                           ELSE Quotient(0, 1)
             win_rate == IF profits # << >>
                         THEN FormatPct(profitable, Len(profits)) ELSE 0
         IN  [total_trades |-> Len(td),
              trades_with_exit_data |-> Len(profits),
              trades_with_profit |-> profitable,
              profitable_trades |-> profitable,
              losing_trades |-> losing,
              breakeven_trades |-> breakeven,
              win_rate |-> win_rate,
              avg_profit |-> avg_profit,
              total_profit |-> total_profit,
              min_profit |-> IF profits # << >> THEN min(profits) ELSE 0,
              max_profit |-> IF profits # << >> THEN max(profits) ELSE 0]

\* (mutant: the header counts every record with a profit as a win)
ExportData_m(mode, td) ==
    LET profits == ProfitsOf(td)
    IN  [mode |-> mode,
         total_trades |-> Len(td),
         trades_with_profit |-> Len(profits),
         win_rate |-> IF profits # << >>
                      THEN FormatPct(Len(profits), Len(profits)) ELSE 0,
         trades |-> td]
\* export_data: the metadata header (without its time stamp) and the trades
ExportData(mode, td) ==
    LET profits == ProfitsOf(td)
        trades_with_profit == CountPositive(profits)
    IN  [mode |-> mode,
         total_trades |-> Len(td),
         trades_with_profit |-> trades_with_profit,
         win_rate |-> IF profits # << >>
                      THEN FormatPct(trades_with_profit, Len(profits)) ELSE 0,
         trades |-> td]

\* with open(path, 'w') as f: json.dump(data, f, ...): open truncates the
\* file before the first byte of the document is written
OpenAndDump(fs, path, io) ==
    CASE io = "ok" -> (path :> "complete") @@ fs
      [] io = "write_fail" -> (path :> "partial") @@ fs
      [] OTHER -> fs

\* the exception of a failed write
IoError(io) == IF io \in {"none", "ok"} THEN "none" ELSE "OSError"

\* (mutant: the handler is missing)
Swallow_m(e) == e
\* try: ... except Exception as e: logger.error(...): what reaches the caller
Swallow(e) == IF IsException(e) THEN "none" ELSE e
\* (mutant: the handler logs and does not raise again)
Reraise_m(e) == "none"
\* try: ... except IOError as e: logger.error(...); raise
Reraise(e) == e

\* (mutant: the save leaves out the records that have no exit yet)
_save_incremental_m(en, auto, cef, td, fs, t, io) ==
    IF ~en \/ ~auto
    THEN [cef |-> cef, files |-> fs, io |-> "none", log |-> << >>,
          raised |-> "none", data |-> None]
    ELSE LET path == IF cef = None THEN t ELSE cef[1]
             closed == SelectSeq(td, LAMBDA e : e.val.profit # None)
         IN  [cef |-> Some(path),
              files |-> OpenAndDump(fs, path, io),
              io |-> io,
              log |-> IF io = "ok" THEN <<"debug">> ELSE <<"error">>,
              raised |-> Swallow(IoError(io)),
              data |-> IF io = "ok"
                       THEN Some(ExportData("incremental", closed)) ELSE None]
\* the effect of _save_incremental on _current_export_file and the files
_save_incremental(en, auto, cef, td, fs, t, io) ==
    IF ~en \/ ~auto
    THEN [cef |-> cef, files |-> fs, io |-> "none", log |-> << >>,
          raised |-> "none", data |-> None]
    ELSE LET path == IF cef = None THEN t ELSE cef[1]
         IN  [cef |-> Some(path),
              files |-> OpenAndDump(fs, path, io),
              io |-> io,
              log |-> IF io = "ok" THEN <<"debug">> ELSE <<"error">>,
              raised |-> Swallow(IoError(io)),
              data |-> IF io = "ok"
                       THEN Some(ExportData("incremental", td)) ELSE None]

\* ----------------------------------------------------------------- Init
\* __init__: an empty store, no export file yet
Init ==
    /\ enabled \in BOOLEAN
    /\ auto_save_on_exit \in BOOLEAN
    /\ trade_data = << >>
    /\ _current_export_file = None
    /\ files = << >>
    /\ ret = Outcome("init", None, "none", <<"info">>, "none", None, None)

\* -------------------------------------------------------------- actions
\* (mutant: the profit starts as a number)
InitialProfit_m == Some(0)
\* 'profit': None, "will be filled during exit"
InitialProfit == None

\* the record store_entry_dataframe writes, or the first exception on the way
EntryRecord(pair, trade, candle) ==
    LET k == _generate_trade_key(trade.enter_tag, pair, trade.open_date_utc)
        c == _convert_candle_to_dict(candle)
        price == float(trade.open_rate)
        amount == float(trade.amount)
    IN  CASE k.exc # "none" -> Raises(k.exc)
          [] c.exc # "none" -> Raises(c.exc)
          [] price.exc # "none" -> Raises(price.exc)
          [] amount.exc # "none" -> Raises(amount.exc)
          [] OTHER ->
               Returns([entry_candle |-> c.val,
                        entry_price |-> price.val,
                        entry_time |-> isoformat(trade.open_date_utc[1]),
                        pair |-> pair,
                        enter_tag |-> trade.enter_tag,
                        amount |-> amount.val,
                        profit |-> InitialProfit])

\* (mutant: the flag is not consulted)
Skips_m(en) == FALSE
\* if not self.enabled: return
Skips(en) == ~en

store_entry_dataframe(pair, trade, candle) ==
    LET k == _generate_trade_key(trade.enter_tag, pair, trade.open_date_utc)
        r == EntryRecord(pair, trade, candle)
        key == IF k.exc = "none" THEN Some(k.val) ELSE None
    IN  /\ IF Skips(enabled)
           THEN /\ ret' = Outcome("entry", None, "none", << >>, "none", None, None)
                /\ UNCHANGED trade_data
           ELSE IF r.exc # "none"
           THEN /\ ret' = Outcome("entry", None, Swallow(r.exc), <<"error">>,
                                  "none", None, None)
                /\ UNCHANGED trade_data
           ELSE /\ trade_data' = DictSet(trade_data, k.val, r.val)
                /\ ret' = [Outcome("entry", key, "none", <<"debug">>, "none",
                                   None, None)
                             EXCEPT !.prior = Prior(trade_data, k.val)]
        /\ UNCHANGED <<enabled, auto_save_on_exit, _current_export_file, files>>

\* (mutant: the profit is written before the conversion of profit_abs fails)
ExitFields_m(td, key, trade, call) ==
    LET profit == float(call.calc_profit_ratio.val)
        profit_abs == float(call.calc_profit.val)
        exit_price == float(call.exit_rate)
    IN  CASE call.calc_profit_ratio.exc # "none" -> Raises(call.calc_profit_ratio.exc)
          [] call.calc_profit.exc # "none" -> Raises(call.calc_profit.exc)
          [] ~DictHas(td, key) -> Returns(None)
          [] profit.exc # "none" -> Raises(profit.exc)
          [] profit_abs.exc # "none" -> Returns(Some([profit |-> Some(profit.val)]))
          [] exit_price.exc # "none" -> Raises(exit_price.exc)
          [] OTHER ->
               Returns(Some([profit |-> Some(profit.val),
                             profit_abs |-> profit_abs.val,
                             exit_price |-> exit_price.val,
                             exit_reason |-> call.exit_reason,
                             trade_duration_candles |-> trade.nr_of_successful_buys]))
\* the exit fields store_exit_profit writes (None when the key is not in the
\* store, where nothing is converted), or the first exception on the way
ExitFields(td, key, trade, call) ==
    LET profit == float(call.calc_profit_ratio.val)
        profit_abs == float(call.calc_profit.val)
        exit_price == float(call.exit_rate)
    IN  CASE call.calc_profit_ratio.exc # "none" -> Raises(call.calc_profit_ratio.exc)
          [] call.calc_profit.exc # "none" -> Raises(call.calc_profit.exc)
          [] ~DictHas(td, key) -> Returns(None)
          [] profit.exc # "none" -> Raises(profit.exc)
          [] profit_abs.exc # "none" -> Raises(profit_abs.exc)
          [] exit_price.exc # "none" -> Raises(exit_price.exc)
          [] OTHER ->
               Returns(Some([profit |-> Some(profit.val),
                             profit_abs |-> profit_abs.val,
                             exit_price |-> exit_price.val,
                             exit_reason |-> call.exit_reason,
                             trade_duration_candles |-> trade.nr_of_successful_buys]))

\* (mutant: a key that is not in the store gets an empty record)
ExitStore_m(td, key, fields) ==
    IF fields = None
    THEN Append(td, [key |-> key, val |-> [profit |-> None]])
    ELSE DictSet(td, key, DictUpdate(DictGet(td, key), fields[1]))

\* (mutant: a record that already has a profit keeps its exit fields)
ExitStore_first_m(td, key, fields) ==
    IF fields = None \/ DictGet(td, key).profit # None
    THEN td
    ELSE DictSet(td, key, DictUpdate(DictGet(td, key), fields[1]))

\* (mutant: the exit fields are written to every record of the store)
ExitStore_all_m(td, key, fields) ==
    IF fields = None
    THEN td
    ELSE [i \in 1..Len(td) |->
            [key |-> td[i].key, val |-> DictUpdate(td[i].val, fields[1])]]

\* the store after the exit: the record of a key in the store takes the
\* exit fields, a key that is not in the store changes nothing
ExitStore(td, key, fields) ==
    IF fields = None
    THEN td
    ELSE DictSet(td, key, DictUpdate(DictGet(td, key), fields[1]))

\* the readings of datetime.now() that name a new incremental file, and
\* what the file system can do to the save, when store_exit_profit saves
Saves == enabled /\ auto_save_on_exit
NowReads == IF Saves /\ _current_export_file = None THEN Clock ELSE {0}
SaveOutcomes == IF Saves THEN IoOutcomes ELSE {"ok"}

store_exit_profit(pair, call) ==
    LET trade == call.trade
        k == _generate_trade_key(trade.enter_tag, pair, trade.open_date_utc)
        key == IF k.exc = "none" THEN Some(k.val) ELSE None
        u == IF k.exc # "none" THEN Raises(k.exc)
             ELSE ExitFields(trade_data, k.val, trade, call)
        updated == ExitStore(trade_data, k.val, u.val)
    IN  /\ IF Skips(enabled)
           THEN /\ ret' = Outcome("exit", None, "none", << >>, "none", None, None)
                /\ UNCHANGED <<trade_data, _current_export_file, files>>
           ELSE IF u.exc # "none"
           THEN /\ ret' = Outcome("exit", None, Swallow(u.exc), <<"error">>,
                                  "none", None, None)
                /\ UNCHANGED <<trade_data, _current_export_file, files>>
           ELSE IF u.val = None
           THEN /\ trade_data' = updated
                /\ ret' = Outcome("exit", key, "none", <<"warning">>, "none",
                                  None, None)
                /\ UNCHANGED <<_current_export_file, files>>
           ELSE \E t \in NowReads, io \in SaveOutcomes :
                  LET s == _save_incremental(enabled, auto_save_on_exit,
                                             _current_export_file, updated,
                                             files, t, io)
                  IN  /\ trade_data' = updated
                      /\ _current_export_file' = s.cef
                      /\ files' = s.files
                      /\ ret' = [Outcome("exit", key, s.raised,
                                         <<"debug">> \o s.log, s.io,
                                         None, s.data)
                                   EXCEPT !.prior = Prior(trade_data, k.val)]
        /\ UNCHANGED <<enabled, auto_save_on_exit>>

\* (mutant: an empty store is exported like any other)
NothingToExport_m(td) == FALSE
\* if not self.trade_data: ... return ""
NothingToExport(td) == td = << >>
EmptyPath == << >>

\* the call before was an export that dumped its document
AfterExport(r) ==
    IF r.op = "export" /\ r.data # None THEN "exported" ELSE "none"

\* the readings of datetime.now() that name the file of an export: it is
\* read when no destination is given
ExportReads(output_path) == IF output_path = None THEN Clock ELSE {0}

\* (mutant: a completed export drops the first record from the store)
export_to_json_m(output_path, t, io) ==
    LET path == IF output_path = None THEN t ELSE output_path[1]
    IN  /\ IF NothingToExport(trade_data)
           THEN /\ ret' = Outcome("export", None, "none", <<"warning">>, "none",
                                  EmptyPath, None)
                /\ UNCHANGED <<files, trade_data>>
           ELSE /\ files' = OpenAndDump(files, path, io)
                /\ trade_data' = IF io = "ok" THEN Tail(trade_data)
                                               ELSE trade_data
                /\ ret' = [Outcome("export", None, Reraise(IoError(io)),
                                   IF io = "ok" THEN <<"info">> ELSE <<"error">>,
                                   io,
                                   IF io = "ok" THEN <<path>> ELSE None,
                                   IF io = "ok"
                                   THEN Some(ExportData("final_export", trade_data))
                                   ELSE None)
                             EXCEPT !.prior = AfterExport(ret)]
        /\ UNCHANGED <<enabled, auto_save_on_exit, _current_export_file>>

export_to_json(output_path, t, io) ==
    LET path == IF output_path = None THEN t ELSE output_path[1]
    IN  /\ IF NothingToExport(trade_data)
           THEN /\ ret' = Outcome("export", None, "none", <<"warning">>, "none",
                                  EmptyPath, None)
                /\ UNCHANGED files
           ELSE /\ files' = OpenAndDump(files, path, io)
                /\ ret' = [Outcome("export", None, Reraise(IoError(io)),
                                   IF io = "ok" THEN <<"info">> ELSE <<"error">>,
                                   io,
                                   IF io = "ok" THEN <<path>> ELSE None,
                                   IF io = "ok"
                                   THEN Some(ExportData("final_export", trade_data))
                                   ELSE None)
                             EXCEPT !.prior = AfterExport(ret)]
        /\ UNCHANGED <<enabled, auto_save_on_exit, trade_data,
                       _current_export_file>>

summarize ==
    /\ ret' = Outcome("summarize", None, "none", << >>, "none",
                      get_statistics_summary(trade_data), None)
    /\ UNCHANGED <<enabled, auto_save_on_exit, trade_data,
                   _current_export_file, files>>

\* (mutant: the export path survives the clear)
clear_m ==
    /\ trade_data' = << >>
    /\ ret' = Outcome("clear", None, "none", <<"info">>, "none", None, None)
    /\ UNCHANGED <<enabled, auto_save_on_exit, _current_export_file, files>>

\* (mutant: the clear leaves the oldest record in the store)
clear_keep_m ==
    /\ trade_data' = IF trade_data = << >> THEN << >> ELSE <<Head(trade_data)>>
    /\ _current_export_file' = None
    /\ ret' = Outcome("clear", None, "none", <<"info">>, "none", None, None)
    /\ UNCHANGED <<enabled, auto_save_on_exit, files>>
clear ==
    /\ trade_data' = << >>
    /\ _current_export_file' = None
    /\ ret' = Outcome("clear", None, "none", <<"info">>, "none", None, None)
    /\ UNCHANGED <<enabled, auto_save_on_exit, files>>

\* the host assigns the public attribute enabled
SetEnabled(b) ==
    /\ enabled # b
    /\ enabled' = b
    /\ ret' = Outcome("set_enabled", None, "none", << >>, "none", None, None)
    /\ UNCHANGED <<auto_save_on_exit, trade_data, _current_export_file, files>>

Next ==
    \/ \E pair \in Pairs, call \in EntryCalls :
          store_entry_dataframe(pair, call.trade, call.candle)
    \/ \E pair \in Pairs, call \in ExitCalls :
          store_exit_profit(pair, call)
    \/ \E output_path \in {None} \cup {Some(p) : p \in OutputPaths} :
          \E t \in ExportReads(output_path), io \in IoOutcomes :
             export_to_json(output_path, t, io)
    \/ summarize
    \/ clear
    \/ \E b \in BOOLEAN : SetEnabled(b)

Spec == Init /\ [][Next]_vars

\* ============================================================ properties
Failed(io) == io \notin {"none", "ok"}
\* the last call was a store_exit_profit that updated the record of its key
ExitUpdated(r) ==
    r.op = "exit" /\ r.key # None /\ r.log # << >> /\ Head(r.log) = "debug"
\* the last call was a store_entry_dataframe that stored the record of its key
EntryStored(r) ==
    r.op = "entry" /\ r.key # None /\ r.log = <<"debug">>

\* C1: a store_exit_profit whose derived key is not in the store returns
\* normally and is a no-op: only a call whose key is in the store updates a
\* record, and every other call leaves the records, the export path and the
\* files as they were and opens no file; the call that finds its key missing
\* logs the warning and nothing else.
C1_ExitUnknownKeyNoOp ==
    [][ret'.op = "exit" =>
         /\ ret'.raised = "none"
         /\ ExitUpdated(ret') => DictHas(trade_data, ret'.key[1])
         /\ ~ExitUpdated(ret') =>
              /\ trade_data' = trade_data
              /\ _current_export_file' = _current_export_file
              /\ files' = files
              /\ ret'.io = "none"
         /\ (ret'.key # None /\ ~DictHas(trade_data, ret'.key[1]))
              <=> ret'.log = <<"warning">>
       ]_vars

C1_Witness ==
    /\ ret.op = "exit" /\ ret.key # None /\ ret.log = <<"warning">>
    /\ ~DictHas(trade_data, ret.key[1])
    /\ trade_data # << >>

\* C2: store_entry_dataframe and store_exit_profit return normally whatever
\* fails inside them: key derivation, candle conversion, float conversion,
\* the profit calculations of the trade, or the automatic save.
C2_EntryExitNeverRaise ==
    ret.op \in {"entry", "exit"} => ret.raised = "none"

C2_Witness ==
    /\ ret.op = "exit" /\ ret.log = <<"error">> /\ ret.raised = "none"
    /\ trade_data # << >>

\* C3: a failing write reaches the caller of export_to_json as an exception,
\* and does not reach the caller of store_exit_profit when it happens in the
\* automatic save: that call returns normally and the record holds the exit
\* fields of the call.
C3_IoFailureRaisedOrSwallowed ==
    [][/\ (ret'.op = "export" /\ Failed(ret'.io)) => ret'.raised # "none"
       /\ (ret'.op = "exit" /\ Failed(ret'.io)) =>
            /\ ret'.raised = "none"
            /\ \A pair \in Pairs, call \in ExitCalls :
                 store_exit_profit(pair, call) =>
                   LET rec == DictGet(trade_data', ret'.key[1])
                   IN  /\ rec.profit = call.calc_profit_ratio.val
                       /\ rec.profit_abs = call.calc_profit.val[1]
                       /\ rec.exit_price = call.exit_rate[1]
                       /\ rec.exit_reason = call.exit_reason
                       /\ rec.trade_duration_candles
                            = call.trade.nr_of_successful_buys
      ]_vars

C3_Witness ==
    /\ ExitUpdated(ret) /\ ret.io = "write_fail" /\ ret.raised = "none"
    /\ DictGet(trade_data, ret.key[1]).profit # None
    /\ files[_current_export_file[1]] = "partial"

\* C4: every file of the output directory holds a complete document at every
\* point of every sequence of saves and exports, failed ones included.
C4_FilesAlwaysComplete ==
    \A p \in DOMAIN files : files[p] = "complete"


\* C5 (as claimed): with enabled false every operation leaves the records,
\* the export path and the files as they were and opens no file.
C5_DisabledEveryOperationNoOp ==
    [][(~enabled /\ ret'.op \in {"entry", "exit", "export", "summarize", "clear"})
         => /\ trade_data' = trade_data
            /\ _current_export_file' = _current_export_file
            /\ files' = files
            /\ ret'.io = "none"]_vars

\* C5 (amended): with enabled false, store_entry_dataframe and
\* store_exit_profit return at once and get_statistics_summary only reads,
\* whatever records the store holds; export_to_json and clear do not consult
\* the flag: the export of a store with records still writes its file and
\* clear still empties the records and resets the export path.
C5_DisabledEntryExitNoOp ==
    [][~enabled =>
         /\ ret'.op \in {"entry", "exit", "summarize"} =>
              /\ trade_data' = trade_data
              /\ _current_export_file' = _current_export_file
              /\ files' = files
              /\ ret'.io = "none"
              /\ ret'.log = << >>
         /\ ret'.op = "clear" =>
              trade_data' = << >> /\ _current_export_file' = None
         /\ (ret'.op = "export" /\ trade_data # << >>) => ret'.io # "none"
       ]_vars

C5_Witness ==
    /\ ~enabled /\ ret.op = "exit" /\ ret.log = << >>
    /\ trade_data # << >>

\* C6 (as claimed): the export path, once created, is never changed, clear
\* only emptying the records.
C6_PathCreatedOnce ==
    [][/\ _current_export_file # None
            => _current_export_file' = _current_export_file
       /\ ret'.op = "clear" => trade_data' = << >>]_vars

\* C6 (amended): the export path is created by the first automatic save and
\* then kept by every operation but clear: clear empties the records and
\* resets the path, so that the first automatic save after it names its file
\* anew from the clock.
C6_PathResetByClear ==
    [][/\ ret'.op = "clear"
            => trade_data' = << >> /\ _current_export_file' = None
       /\ (ret'.op # "clear" /\ _current_export_file # None)
            => _current_export_file' = _current_export_file
       /\ (_current_export_file = None /\ _current_export_file' # None)
            => /\ ExitUpdated(ret') /\ ret'.io # "none"
               /\ enabled /\ auto_save_on_exit
               /\ _current_export_file'[1] \in Clock
      ]_vars

\* an automatic save that made a second file
C6_Witness ==
    /\ ExitUpdated(ret) /\ ret.io = "ok"
    /\ _current_export_file # None
    /\ \E p \in DOMAIN files : p # _current_export_file[1]

\* the dict without the key
DictRemove(d, k) == SelectSeq(d, LAMBDA e : e.key # k)

\* C7: right after a store_entry_dataframe that stored its record, the
\* summary counts the record in total_trades and not in
\* trades_with_exit_data, its profit being None, whatever the key held before.
C7_EntryCountedWithoutExit ==
    EntryStored(ret) =>
       LET k == ret.key[1]
           with == get_statistics_summary(trade_data)
           without == get_statistics_summary(DictRemove(trade_data, k))
       IN  /\ DictHas(trade_data, k)
           /\ DictGet(trade_data, k).profit = None
           /\ with.total_trades = without.total_trades + 1
           /\ with.trades_with_exit_data = without.trades_with_exit_data

C7_Witness ==
    /\ EntryStored(ret)
    /\ \E i \in 1..Len(trade_data) : trade_data[i].val.profit # None

\* the records with a profit, and the sum of their profits
Exited(td) == {i \in 1..Len(td) : td[i].val.profit # None}
RatioOf(td, i) == td[i].val.profit[1]
RECURSIVE SumOver(_, _)
SumOver(td, I) ==
    IF I = {} THEN 0
    ELSE LET i == CHOOSE j \in I : TRUE
         IN  RatioOf(td, i) + SumOver(td, I \ {i})

\* C8: right after a store_exit_profit that updated its record, the summary
\* counts the trade among those with exit data, classifies every such trade
\* by the sign of its ratio, and reports win rate, total, mean, minimum and
\* maximum of the ratios.
C8_ExitClassifiedBySign ==
    ExitUpdated(ret) =>
       LET k == ret.key[1]
           s == get_statistics_summary(trade_data)
           X == Exited(trade_data)
           n == Cardinality(X)
       IN  /\ DictIdx(trade_data, k) \in X
           /\ s.trades_with_exit_data = n
           /\ s.profitable_trades
                = Cardinality({i \in X : RatioOf(trade_data, i) > 0})
           /\ s.losing_trades
                = Cardinality({i \in X : RatioOf(trade_data, i) < 0})
           /\ s.breakeven_trades
                = Cardinality({i \in X : RatioOf(trade_data, i) = 0})
           \* the win rate is within half a hundredth of a percent
           /\ 2 * (s.win_rate * n - 10000 * s.profitable_trades) <= n
           /\ 2 * (10000 * s.profitable_trades - s.win_rate * n) <= n
           /\ s.total_profit = SumOver(trade_data, X)
           /\ s.avg_profit.den # 0
           /\ s.avg_profit.num * n = s.total_profit * s.avg_profit.den
           /\ \A i \in X : s.min_profit <= RatioOf(trade_data, i)
           /\ \E i \in X : s.min_profit = RatioOf(trade_data, i)
           /\ \A i \in X : s.max_profit >= RatioOf(trade_data, i)
           /\ \E i \in X : s.max_profit = RatioOf(trade_data, i)

\* two exited trades of different sign
C8_Witness ==
    /\ ExitUpdated(ret)
    /\ Cardinality(Exited(trade_data)) = 2
    /\ \E i, j \in Exited(trade_data) :
          RatioOf(trade_data, i) = 0 /\ RatioOf(trade_data, j) > 0

\* C9: the summary of a store without any profit, empty or not, has
\* total_trades equal to the number of records and zero everywhere else
\* (win rate "0.00%"); no division by zero is evaluated.
C9_SummaryWithoutProfits ==
    (ret.op = "summarize" /\ Exited(trade_data) = {}) =>
       ret.value = [total_trades |-> Len(trade_data),
                    trades_with_exit_data |-> 0,
                    trades_with_profit |-> 0,
                    profitable_trades |-> 0,
                    losing_trades |-> 0,
                    breakeven_trades |-> 0,
                    win_rate |-> 0,
                    avg_profit |-> [num |-> 0, den |-> 1],
                    total_profit |-> 0,
                    min_profit |-> 0,
                    max_profit |-> 0]

C9_Witness ==
    /\ ret.op = "summarize" /\ Exited(trade_data) = {}
    /\ Len(trade_data) = 2

\* C10: export_to_json on an empty store opens no file, makes no directory,
\* leaves the files as they are and returns the empty path, also when the
\* store was emptied by clear.
C10_EmptyExportWritesNothing ==
    [][(ret'.op = "export" /\ trade_data = << >>)
         => /\ files' = files
            /\ ret'.io = "none"
            /\ ret'.raised = "none"
            /\ ret'.value = EmptyPath
            /\ ret'.data = None]_vars

C10_Witness ==
    /\ ret.op = "export" /\ trade_data = << >>
    /\ ret.io = "none" /\ files # << >>

\* the records whose profit is above zero
Wins(td) == {i \in Exited(td) : RatioOf(td, i) > 0}

\* C11 (as claimed): in the document of every export, final or incremental,
\* total_trades is the number of records of the store and trades_with_profit
\* the number of records with a profit that is not null.
C11_HeaderCountsRecordedProfits ==
    ret.data # None =>
       LET d == ret.data[1]
       IN  /\ d.total_trades = Len(trade_data)
           /\ d.trades_with_profit = Cardinality(Exited(trade_data))

\* C11 (amended): in the document of every export, final or incremental,
\* total_trades is the number of records of the store, trades_with_profit is
\* the number of records whose profit is above zero (the wins: a loss or a
\* break-even has a profit and is not counted), and win_rate is that number
\* over the number of records with a profit, in percent rounded to two
\* decimals, "0.00%" when no record has a profit.
C11_HeaderCountsWins ==
    ret.data # None =>
       LET d == ret.data[1]
           n == Cardinality(Exited(trade_data))
           wins == Cardinality(Wins(trade_data))
       IN  /\ ret.op \in {"exit", "export"}
           /\ d.mode = (IF ret.op = "exit" THEN "incremental" ELSE "final_export")
           /\ d.total_trades = Len(trade_data)
           /\ d.trades_with_profit = wins
           /\ n = 0 => d.win_rate = 0
           /\ 2 * (d.win_rate * n - 10000 * wins) <= n
           /\ 2 * (10000 * wins - d.win_rate * n) <= n

\* an incremental document of a store with a win and a loss
C11_Witness ==
    /\ ret.data # None /\ ret.op = "exit"
    /\ Len(trade_data) = 2
    /\ Cardinality(Exited(trade_data)) = 2
    /\ Cardinality(Wins(trade_data)) = 1
    /\ ret.data[1].trades_with_profit = 1

\* C12 (as claimed): with auto_save_on_exit on, every store_exit_profit that
\* updated a record returns with the incremental file holding a complete
\* document of mode "incremental" whose trades are the whole store; with it
\* off the call opens no file.
C12_ExitRewritesFile ==
    ExitUpdated(ret) =>
       IF auto_save_on_exit
       THEN /\ _current_export_file # None
            /\ _current_export_file[1] \in DOMAIN files
            /\ files[_current_export_file[1]] = "complete"
            /\ ret.data # None
            /\ ret.data[1].mode = "incremental"
            /\ ret.data[1].trades = trade_data
       ELSE ret.io = "none"

\* C12 (amended): with auto_save_on_exit on, every store_exit_profit that
\* updated a record goes on to rewrite the incremental file; when the write
\* succeeds the file holds, on return, a complete document of mode
\* "incremental" whose trades are the whole store, the records without an
\* exit included; when the write fails the call still returns normally and
\* the file is missing, stale or truncated.  With auto_save_on_exit off the
\* call opens no file and leaves the files and the export path as they were.
C12_ExitRewritesFileUnlessWriteFails ==
    [][ExitUpdated(ret') =>
         IF auto_save_on_exit
         THEN /\ ret'.io # "none"
              /\ _current_export_file' # None
              /\ ret'.io = "ok" =>
                   /\ files'[_current_export_file'[1]] = "complete"
                   /\ \A p \in DOMAIN files' \ {_current_export_file'[1]} :
                         p \in DOMAIN files /\ files'[p] = files[p]
                   /\ ret'.data # None
                   /\ ret'.data[1].mode = "incremental"
                   /\ ret'.data[1].trades = trade_data'
                   /\ ret'.data[1].total_trades = Len(trade_data')
              /\ Failed(ret'.io) =>
                   /\ ret'.raised = "none"
                   /\ ret'.data = None
                   /\ ret'.io = "open_fail" => files' = files
                   /\ ret'.io = "write_fail" =>
                        files'[_current_export_file'[1]] = "partial"
         ELSE /\ ret'.io = "none"
              /\ ret'.data = None
              /\ files' = files
              /\ _current_export_file' = _current_export_file
      ]_vars

\* a successful automatic save of a store with an exited and an open trade
C12_Witness ==
    /\ ExitUpdated(ret) /\ auto_save_on_exit /\ ret.io = "ok"
    /\ Len(trade_data) = 2
    /\ Cardinality(Exited(trade_data)) = 1
    /\ ret.data[1].trades = trade_data
    /\ files[_current_export_file[1]] = "complete"

\* the entry fields of a record
EntryFields(r) == <<r.entry_price, r.entry_time, r.pair, r.enter_tag, r.amount>>

\* C13 (as claimed): the entry fields of a record never change while the
\* record is in the store, whatever the operation.
C13_EntryFieldsImmutable ==
    [][\A i \in 1..Len(trade_data) :
          LET k == trade_data[i].key
          IN  DictHas(trade_data', k) =>
                EntryFields(DictGet(trade_data', k)) = EntryFields(trade_data[i].val)
      ]_vars

\* C13 (amended): the entry fields of a record in the store are changed by
\* no store_exit_profit, export_to_json or get_statistics_summary; a
\* store_entry_dataframe that derives the key of a record in the store
\* replaces the record, so that its entry fields become those of the later
\* call.
C13_EntryFieldsChangedOnlyByEntry ==
    [][/\ trade_data' # trade_data =>
          \A i \in 1..Len(trade_data) :
            LET k == trade_data[i].key
            IN  DictHas(trade_data', k) =>
                  \/ EntryFields(DictGet(trade_data', k))
                       = EntryFields(trade_data[i].val)
                  \/ EntryStored(ret') /\ ret'.key[1] = k
       /\ EntryStored(ret') =>
            \A pair \in Pairs, call \in EntryCalls :
               store_entry_dataframe(pair, call.trade, call.candle) =>
                  EntryFields(DictGet(trade_data', ret'.key[1]))
                    = <<call.trade.open_rate[1],
                        isoformat(call.trade.open_date_utc[1]),
                        pair, call.trade.enter_tag, call.trade.amount[1]>>
      ]_vars

\* the second buy of a trade stored over the record of the first, next to
\* an exited record of another key
C13_Witness ==
    /\ EntryStored(ret) /\ ret.prior = "open"
    /\ DictGet(trade_data, ret.key[1]).entry_price = 200
    /\ Len(trade_data) = 2
    /\ Cardinality(Exited(trade_data)) = 1

\* C14: export_to_json never changes the records; the trades of its document
\* are the records of the store, and the document of an export that follows
\* an export with no call in between has the same trades (and, the time
\* stamp apart, the same header).
C14_ExportIdempotent ==
    [][ret'.op = "export" =>
         /\ trade_data' = trade_data
         /\ ret'.data # None => ret'.data[1].trades = trade_data
         /\ (ret.op = "export" /\ ret.data # None /\ ret'.data # None) =>
               /\ ret'.prior = "exported"
               /\ ret'.data[1].trades = ret.data[1].trades
               /\ ret'.data = ret.data
      ]_vars

\* the second of two exports in a row, of a store with an exited and an open
\* trade
C14_Witness ==
    /\ ret.op = "export" /\ ret.prior = "exported" /\ ret.data # None
    /\ ret.data[1].trades = trade_data
    /\ Len(trade_data) = 2
    /\ Cardinality(Exited(trade_data)) = 1

\* the runtime types json writes as they are
JsonTypes == {"str", "null", "float", "int", "bool"}

\* C15: the entry_candle a store_entry_dataframe stores has the field names
\* of the candle it was given; a NaN or None value is stored as null, a
\* Timestamp or datetime as its isoformat string, a numpy number as a plain
\* number, any other value as it is; and every value of every stored
\* entry_candle is of a type json writes as it is, none a NaN or a timestamp
\* object.
C15_SnapshotNormalized ==
    [][/\ EntryStored(ret') =>
            \A pair \in Pairs, call \in EntryCalls :
               store_entry_dataframe(pair, call.trade, call.candle) =>
                  LET c == call.candle[1]
                      s == DictGet(trade_data', ret'.key[1]).entry_candle
                  IN  /\ DOMAIN s = DOMAIN c
                      /\ \A f \in DOMAIN c :
                           /\ c[f].t \in {"nan", "None"} => s[f] = Val("null", None)
                           /\ c[f].t \in {"Timestamp", "datetime"} =>
                                s[f] = Val("str", isoformat(c[f].v))
                           /\ c[f].t \in {"np.float64", "np.int64"} =>
                                s[f] = Val("float", c[f].v)
                           /\ c[f].t \in JsonTypes => s[f] = c[f]
       /\ \A i \in 1..Len(trade_data') :
            \A f \in DOMAIN trade_data'[i].val.entry_candle :
               trade_data'[i].val.entry_candle[f].t \in JsonTypes
      ]_vars

\* a stored snapshot that had a NaN, a Timestamp and a numpy number
C15_Witness ==
    /\ EntryStored(ret)
    /\ LET s == DictGet(trade_data, ret.key[1]).entry_candle
       IN  /\ {"rsi", "date", "close", "volume"} \subseteq DOMAIN s
           /\ s.rsi = Val("null", None)
           /\ s.date = Val("str", isoformat(0))
           /\ s.close = Val("float", 2)

\* the number of records stored under the key
Occurrences(td, k) == Cardinality({i \in 1..Len(td) : td[i].key = k})

\* C16: a store_exit_profit that updates a record which already has the
\* exit fields of an earlier call overwrites them with its own values, adds
\* no record, and leaves the trade counted once in trades_with_exit_data.
C16_LastExitWins ==
    [][(/\ ExitUpdated(ret')
        /\ DictHas(trade_data, ret'.key[1])
        /\ DictGet(trade_data, ret'.key[1]).profit # None) =>
          LET k == ret'.key[1]
              rec == DictGet(trade_data', k)
          IN  /\ Len(trade_data') = Len(trade_data)
              /\ Occurrences(trade_data', k) = 1
              /\ get_statistics_summary(trade_data').trades_with_exit_data
                   = get_statistics_summary(trade_data).trades_with_exit_data
              /\ \A pair \in Pairs, call \in ExitCalls :
                   store_exit_profit(pair, call) =>
                      /\ rec.profit = call.calc_profit_ratio.val
                      /\ rec.profit_abs = call.calc_profit.val[1]
                      /\ rec.exit_price = call.exit_rate[1]
                      /\ rec.exit_reason = call.exit_reason
                      /\ rec.trade_duration_candles
                           = call.trade.nr_of_successful_buys
      ]_vars

\* a losing exit written over the exit fields of an earlier call
C16_Witness ==
    /\ ExitUpdated(ret) /\ ret.prior = "exited"
    /\ DictGet(trade_data, ret.key[1]).exit_reason = <<"l">>
    /\ DictGet(trade_data, ret.key[1]).profit = Some(-10)
    /\ get_statistics_summary(trade_data).trades_with_exit_data = 1

\* the names of the exit fields other than profit
ExitOnlyFields == {"profit_abs", "exit_price", "exit_reason", "trade_duration_candles"}

\* C17: a store_entry_dataframe that derives the key of a record in the
\* store replaces that record in its place: the number of records is
\* unchanged, the new record has a null profit and no other exit field, and
\* the trade, if it had exit data, is no longer counted in
\* trades_with_exit_data.
C17_ReentryResetsRecord ==
    [][(EntryStored(ret') /\ DictHas(trade_data, ret'.key[1])) =>
          LET k == ret'.key[1]
              old == DictGet(trade_data, k)
              rec == DictGet(trade_data', k)
          IN  /\ Len(trade_data') = Len(trade_data)
              /\ Occurrences(trade_data', k) = 1
              /\ DictIdx(trade_data', k) = DictIdx(trade_data, k)
              /\ rec.profit = None
              /\ DOMAIN rec \cap ExitOnlyFields = {}
              /\ DictIdx(trade_data', k) \notin Exited(trade_data')
              /\ get_statistics_summary(trade_data').trades_with_exit_data
                   = get_statistics_summary(trade_data).trades_with_exit_data
                       - (IF old.profit # None THEN 1 ELSE 0)
      ]_vars

\* an entry over an exited record, next to another exited record
C17_Witness ==
    /\ EntryStored(ret) /\ ret.prior = "exited"
    /\ Len(trade_data) = 2
    /\ DictGet(trade_data, ret.key[1]).profit = None
    /\ get_statistics_summary(trade_data).trades_with_exit_data = 1

\* the keys of the dict
Keys(td) == {td[i].key : i \in 1..Len(td)}

\* C18: the keys of the store are those of the store_entry_dataframe calls
\* that stored a record since __init__ or the last clear: the store starts
\* empty, a call that stores a record adds its key (or keeps it), clear
\* removes every key, and no other call (a skipped or failing entry, an
\* exit, an export, a summary) changes the keys; no key is held twice.
C18_KeysFromEntriesSinceClear ==
    [][/\ Keys(trade_data') =
            IF ret'.op = "clear" THEN {}
            ELSE IF EntryStored(ret') THEN Keys(trade_data) \cup {ret'.key[1]}
            ELSE Keys(trade_data)
       /\ ret'.op \in {"exit", "export", "summarize"} =>
            [i \in 1..Len(trade_data') |-> trade_data'[i].key]
              = [i \in 1..Len(trade_data) |-> trade_data[i].key]
       /\ Cardinality(Keys(trade_data')) = Len(trade_data')
       /\ ret.op = "init" => trade_data = << >>
      ]_vars

\* the first entry after a clear: the store held the records of an export
\* or save before, and holds the one record of this entry now
C18_Witness ==
    /\ EntryStored(ret) /\ ret.prior = "absent"
    /\ Keys(trade_data) = {ret.key[1]}
    /\ files # << >>

\* the names of the fields store_entry_dataframe and store_exit_profit write
EntryNames == {"entry_candle", "entry_price", "entry_time", "pair",
               "enter_tag", "amount"}
ExitNames == ExitOnlyFields \cup {"profit"}
\* the field of the record has a value other than null (of the exit fields
\* only profit is ever stored as null)
NonNull(r, f) == f \in DOMAIN r /\ (f = "profit" => r[f] # None)

\* C19: a store_exit_profit that updates a record leaves every other record
\* and the order of the records as they were, leaves the six entry fields of
\* its record as they were and gives it the five exit fields; and an exit
\* field of a record takes a new value other than null only in such a call
\* for the key of the record.
C19_ExitWritesOnlyExitFields ==
    [][/\ ExitUpdated(ret') =>
            LET k == ret'.key[1]
                i == DictIdx(trade_data, k)
                old == trade_data[i].val
                rec == trade_data'[i].val
            IN  /\ Len(trade_data') = Len(trade_data)
                /\ trade_data'[i].key = k
                /\ \A j \in 1..Len(trade_data) :
                      j # i => trade_data'[j] = trade_data[j]
                /\ \A f \in EntryNames : rec[f] = old[f]
                /\ DOMAIN rec = EntryNames \cup ExitNames
       /\ trade_data' # trade_data =>
          \A j \in 1..Len(trade_data') :
            LET k == trade_data'[j].key
                rec == trade_data'[j].val
            IN  \A f \in ExitNames :
                   (/\ NonNull(rec, f)
                    /\ \/ ~DictHas(trade_data, k)
                       \/ f \notin DOMAIN DictGet(trade_data, k)
                       \/ DictGet(trade_data, k)[f] # rec[f])
                   => ExitUpdated(ret') /\ ret'.key[1] = k
      ]_vars

\* an exit of one of two open trades
C19_Witness ==
    /\ ExitUpdated(ret) /\ ret.prior = "open"
    /\ Len(trade_data) = 2
    /\ Cardinality(Exited(trade_data)) = 1
    /\ DictGet(trade_data, ret.key[1]).entry_price = 200

\* C20: two (enter_tag, pair, open_date_utc) triples that differ have
\* different keys: a call that finds a record under the key it derived
\* finds the record stored for the tag, the pair and the open date of its
\* own trade.
C20_DistinctTriplesDistinctKeys ==
    [][/\ (EntryStored(ret') /\ DictHas(trade_data, ret'.key[1])) =>
            \A pair \in Pairs, call \in EntryCalls :
               store_entry_dataframe(pair, call.trade, call.candle) =>
                  LET old == DictGet(trade_data, ret'.key[1])
                  IN  <<old.enter_tag, old.pair, old.entry_time>>
                        = <<call.trade.enter_tag, pair,
                            isoformat(call.trade.open_date_utc[1])>>
       /\ ExitUpdated(ret') =>
            \A pair \in Pairs, call \in ExitCalls :
               store_exit_profit(pair, call) =>
                  LET old == DictGet(trade_data, ret'.key[1])
                  IN  <<old.enter_tag, old.pair, old.entry_time>>
                        = <<call.trade.enter_tag, pair,
                            isoformat(call.trade.open_date_utc[1])>>
      ]_vars

\* the keys of the dict in its order
KeySeq(td) == [i \in 1..Len(td) |-> td[i].key]

\* C21: the trades of every exported document, final or incremental, are in
\* the order of the store, which is the order in which the keys were first
\* stored since the last clear: a store_entry_dataframe that stores a new
\* key puts it last, one that stores over a key of the store and a
\* store_exit_profit leave the order as it was, and clear empties it.
C21_ExportInFirstEntryOrder ==
    [][/\ KeySeq(trade_data') =
            IF ret'.op = "clear" THEN << >>
            ELSE IF EntryStored(ret') /\ ~DictHas(trade_data, ret'.key[1])
                 THEN Append(KeySeq(trade_data), ret'.key[1])
                 ELSE KeySeq(trade_data)
       /\ ret'.data # None =>
            KeySeq(ret'.data[1].trades) = KeySeq(trade_data')
      ]_vars

\* an incremental document of two trades, written by the exit of the trade
\* entered first, after its second buy
C21_Witness ==
    /\ ExitUpdated(ret) /\ ret.io = "ok" /\ ret.data # None
    /\ Len(trade_data) = 2
    /\ DictIdx(trade_data, ret.key[1]) = 1
    /\ trade_data[1].val.entry_price = 200
    /\ KeySeq(ret.data[1].trades) = KeySeq(trade_data)
    /\ ret.data[1].trades[1].key = ret.key[1]

\* C22: in every state the store can reach, the summary has
\* profitable_trades + losing_trades + breakeven_trades
\* = trades_with_exit_data <= total_trades, total_trades the number of
\* records and trades_with_profit = profitable_trades; the value a
\* get_statistics_summary call returned is that summary.
C22_SummaryCountsAddUp ==
    LET s == get_statistics_summary(trade_data)
    IN  /\ s.profitable_trades + s.losing_trades + s.breakeven_trades
             = s.trades_with_exit_data
        /\ s.trades_with_exit_data <= s.total_trades
        /\ s.total_trades = Len(trade_data)
        /\ s.trades_with_profit = s.profitable_trades
        /\ ret.op = "summarize" => ret.value = s

\* the summary of a store with a break-even and an open trade, after a save
\* or an export
C22_Witness ==
    /\ ret.op = "summarize"
    /\ ret.value.total_trades = 2
    /\ ret.value.trades_with_exit_data = 1
    /\ ret.value.breakeven_trades = 1
    /\ files # << >>

\* the arguments with which a call fails: no open date (key derivation), no
\* candle or a candle value pd.isna cannot take (normalization), no open
\* rate or amount (conversion)
EntryFailsAt(call) ==
    \/ call.trade.open_date_utc = None
    \/ call.candle = None
    \/ \E f \in DOMAIN call.candle[1] : call.candle[1][f].t = "list"
    \/ call.trade.open_rate = None
    \/ call.trade.amount = None
\* no open date (key derivation), a profit calculation that raises, no
\* ratio, absolute profit or exit rate (conversion)
ExitFailsAt(call) ==
    \/ call.trade.open_date_utc = None
    \/ call.calc_profit_ratio.exc # "none"
    \/ call.calc_profit.exc # "none"
    \/ call.calc_profit_ratio.val = None
    \/ call.calc_profit.val = None
    \/ call.exit_rate = None

\* C23: a store_entry_dataframe that fails in key derivation, normalization
\* or conversion, and a store_exit_profit that fails in key derivation,
\* profit calculation or conversion, return with the records, the export
\* path and the files as they were before the call, having opened no file.
C23_FailedCallChangesNothing ==
    [][/\ ret'.op = "entry" =>
            \A pair \in Pairs, call \in EntryCalls :
               (EntryFailsAt(call)
                  /\ store_entry_dataframe(pair, call.trade, call.candle)) =>
                    /\ trade_data' = trade_data
                    /\ _current_export_file' = _current_export_file
                    /\ files' = files
                    /\ ret'.io = "none" /\ ret'.data = None
                    /\ ret'.raised = "none"
       /\ ret'.op = "exit" =>
            \A pair \in Pairs, call \in ExitCalls :
               (ExitFailsAt(call) /\ store_exit_profit(pair, call)) =>
                    /\ trade_data' = trade_data
                    /\ _current_export_file' = _current_export_file
                    /\ files' = files
                    /\ ret'.io = "none" /\ ret'.data = None
                    /\ ret'.raised = "none"
      ]_vars

\* a failed exit of the trade tagged "a", whose record is in the store with
\* the record of another trade and has no exit field
C23_Witness ==
    /\ ret.op = "exit" /\ ret.log = <<"error">> /\ enabled
    /\ Len(trade_data) = 2
    /\ \E i \in 1..Len(trade_data) :
          /\ trade_data[i].val.enter_tag = Some(<<"a">>)
          /\ DOMAIN trade_data[i].val \cap ExitOnlyFields = {}
          /\ trade_data[i].val.profit = None

====
